---- MODULE Spec2Model ----
(***************************************************************************)
(* Model of the Oracle -> ClickHouse replication engine of oracle-sync:    *)
(* sync.py (OracleConnector, ClickHouseConnector, OracleToClickHouseSyncer *)
(* and main).                                                              *)
(*                                                                         *)
(* A source row is represented by its identifier (sta.AA_ID, a number).    *)
(* The destination stores the identifier column act_aa_id as a String      *)
(* (get_schema_mapping), so a destination row is the decimal string of an  *)
(* identifier, modelled as its sequence of digits.  The destination        *)
(* compares strings as strings; the source compares AA_ID as a number.     *)
(***************************************************************************)
EXTENDS Integers, Sequences, FiniteSets, TLC

\* ---------------------------------------------------------------- bounds

\* Identifiers the source can hold are 8 .. MaxId (one and two digit ids).
MaxId == 10
\* Passes start only while the destination holds at most MaxDest - NumIds rows.
MaxDest == 8
\* Rows per cursor.fetchmany call (batch_size, 1000 in the program), scaled.
BatchSize == 2
\* Rows per INSERT statement (batch_size = 10000 in insert_data), scaled.
InsertBatchSize == 2
\* The greatest number of records in a batch given to convert_records.
MaxBatch == 2
\* Rows per cursor.fetchmany call in syncpl.py (batch_size = 5000), scaled.
PlBatchSize == 2

\* ------------------------------------------------------ program constants

\* retries = 5 in main
StartupRetries == 5
\* time.sleep(5) after a failed startup attempt
StartupDelay == 5

Ids == 8 .. MaxId
NumIds == Cardinality(Ids)

\* ------------------------------------------------------------ pure helpers

RECURSIVE Digits(_)
\* str(n) for a non-negative integer: its decimal digits, most significant first.
Digits(n) == IF n < 10 THEN <<n>> ELSE Append(Digits(n \div 10), n % 10)

RECURSIVE ToNumber(_)
\* The number a decimal string denotes (the source's conversion of a string
\* bind value compared with the numeric AA_ID).
ToNumber(s) == IF Len(s) = 0 THEN 0
               ELSE 10 * ToNumber(SubSeq(s, 1, Len(s) - 1)) + s[Len(s)]

RECURSIVE StrLess(_, _)
\* a < b in the destination's order of String values (lexicographic).
StrLess(a, b) ==
    IF Len(b) = 0 THEN FALSE
    ELSE IF Len(a) = 0 THEN TRUE
    ELSE IF a[1] # b[1] THEN a[1] < b[1]
    ELSE StrLess(Tail(a), Tail(b))

\* The elements of a sequence.
Range(q) == {q[i] : i \in 1 .. Len(q)}

\* The greatest of a non-empty set of numbers.
MaxNum(S) == CHOOSE x \in S : \A y \in S : y <= x

\* The greatest of a non-empty set of strings in the destination's order.
StrMax(S) == CHOOSE x \in S : \A y \in S : y = x \/ StrLess(y, x)

RECURSIVE Ascending(_)
\* The numbers of a finite set in ascending order (ORDER BY sta.AA_ID).
Ascending(S) == IF S = {} THEN <<>>
                ELSE LET m == CHOOSE x \in S : \A y \in S : x <= y
                     IN <<m>> \o Ascending(S \ {m})

\* Python values a watermark can be: the int 0 or a str of digits.
PyInt0 == [ty |-> "int", s |-> <<0>>]
PyStr(s) == [ty |-> "str", s |-> s]

\* ------------------------------------------------- OracleConnector (source)

\* A connect that logs the error and returns.
OracleConnectSwallows(conn, out) ==
    IF out = "connect_error" THEN [connection |-> conn, raised |-> FALSE]
    ELSE [connection |-> "open", raised |-> FALSE]

\* OracleConnector.connect: self.connection after the call, and whether it
\* raised.  out is "ok", "connect_error" (oracledb.connect raised, the field is
\* not assigned) or "liveness_error" (SELECT 1 FROM DUAL raised after the field
\* was assigned).
OracleConnect(conn, out) ==
    IF out = "connect_error" THEN [connection |-> conn, raised |-> TRUE]
    ELSE [connection |-> "open", raised |-> (out = "liveness_error")]

OracleCloseLeak(conn) == conn

\* A close that opens a connector it finds closed.
OracleCloseToggle(conn) == IF conn # "None" THEN "None" ELSE "open"

\* OracleConnector.close: self.connection after the call.
OracleClose(conn) == IF conn # "None" THEN "None" ELSE conn

\* The query without its ORDER BY, the rows coming greatest identifier first.
SourceQueryDescending(src, bind) ==
    LET q == Ascending({i \in src : i > ToNumber(bind.s)})
    IN [i \in 1 .. Len(q) |-> q[Len(q) + 1 - i]]

\* The rows the source query returns for a bind value: AA_ID > :last_id,
\* ORDER BY AA_ID (all rows taken to be inside the ACTDATETIME window).
SourceQuery(src, bind) == Ascending({i \in src : i > ToNumber(bind.s)})

RECURSIVE FetchLoopPrepend(_, _, _, _)
FetchLoopPrepend(cursor, pos, all_rows, calls) ==
    LET n == IF Len(cursor) - pos < BatchSize THEN Len(cursor) - pos ELSE BatchSize
        got == SubSeq(cursor, pos + 1, pos + n)
    IN IF n = 0 THEN [rows |-> all_rows, calls |-> calls + 1]
       ELSE IF n < BatchSize THEN [rows |-> got \o all_rows, calls |-> calls + 1]
       ELSE FetchLoopPrepend(cursor, pos + n, got \o all_rows, calls + 1)

RECURSIVE FetchLoopUntilEmpty(_, _, _, _)
\* A loop that stops only at "if not rows: break".
FetchLoopUntilEmpty(cursor, pos, all_rows, calls) ==
    LET n == IF Len(cursor) - pos < BatchSize THEN Len(cursor) - pos ELSE BatchSize
        got == SubSeq(cursor, pos + 1, pos + n)
    IN IF n = 0 THEN [rows |-> all_rows, calls |-> calls + 1]
       ELSE FetchLoopUntilEmpty(cursor, pos + n, all_rows \o got, calls + 1)

RECURSIVE FetchLoop(_, _, _, _)
\* The fetchmany loop of execute_query: the rows accumulated and the number of
\* fetchmany calls made, from cursor position pos.
FetchLoop(cursor, pos, all_rows, calls) ==
    LET n == IF Len(cursor) - pos < BatchSize THEN Len(cursor) - pos ELSE BatchSize
        got == SubSeq(cursor, pos + 1, pos + n)
    IN IF n = 0 THEN [rows |-> all_rows, calls |-> calls + 1]
       ELSE IF n < BatchSize THEN [rows |-> all_rows \o got, calls |-> calls + 1]
       ELSE FetchLoop(cursor, pos + n, all_rows \o got, calls + 1)

\* OracleConnector.execute_query on an open connection.
ExecuteQuery(src, bind) == FetchLoop(SourceQuery(src, bind), 0, <<>>, 0)

\* --------------------------------------------- DataTypeConverter (act_aa_id)

\* _convert_value for the String column act_aa_id: str(value).
ConvertValue(id) == Digits(id)

\* convert_records restricted to the identifier column.
ConvertRecords(records) == [i \in 1 .. Len(records) |-> ConvertValue(records[i])]

\* ------------------------------------------------------ DataTypeConverter

\* Python values, as a type name and the value's text.
PyVal(ty, v) == [ty |-> ty, v |-> v]
PyNone == PyVal("NoneType", "None")

\* The values a field holds in the batches explored here.
Values ==
    {PyNone, PyVal("int", "0"), PyVal("int", "12"), PyVal("float", "2.5"),
     PyVal("float", "nan"), PyVal("float", "inf"), PyVal("str", "12"),
     PyVal("str", "abc"), PyVal("bool", "True"),
     PyVal("datetime", "2024-01-01 00:00:00")}

\* The keys of TYPE_CONVERTERS and DEFAULT_VALUES, by converter.
IntTags == {"Int8", "Int16", "Int32", "Int64", "Int128", "Int256",
            "UInt8", "UInt16", "UInt32", "UInt64", "UInt128", "UInt256"}
FloatTags == {"Float32", "Float64", "Decimal"}
StrTags == {"String", "FixedString", "UUID", "Enum8", "Enum16"}
DateTags == {"Date", "DateTime", "DateTime64"}
TableTags == IntTags \cup FloatTags \cup StrTags \cup DateTags \cup {"Bool"}

\* The type tags a schema mapping holds here: the table's, and one that is
\* not in the table.
Tags == TableTags \cup {"Array(String)"}

\* The outcome of a call: the value returned, or the exception raised.
Returns(v) == [exc |-> "none", val |-> v]
Raises(e) == [exc |-> e, val |-> PyNone]

\* int(x)
PyInt(x) ==
    CASE x.ty = "int" -> Returns(x)
      [] x.ty = "bool" -> Returns(PyVal("int", IF x.v = "True" THEN "1" ELSE "0"))
      [] x.ty = "float" /\ x.v = "2.5" -> Returns(PyVal("int", "2"))
      [] x.ty = "float" /\ x.v = "nan" -> Raises("ValueError")
      [] x.ty = "float" /\ x.v = "inf" -> Raises("OverflowError")
      [] x.ty = "str" /\ x.v = "12" -> Returns(PyVal("int", "12"))
      [] x.ty = "str" -> Raises("ValueError")
      [] OTHER -> Raises("TypeError")

\* float(x)
PyFloat(x) ==
    CASE x.ty = "float" -> Returns(x)
      [] x.ty = "int" -> Returns(PyVal("float", IF x.v = "0" THEN "0.0" ELSE "12.0"))
      [] x.ty = "bool" -> Returns(PyVal("float", IF x.v = "True" THEN "1.0" ELSE "0.0"))
      [] x.ty = "str" /\ x.v = "12" -> Returns(PyVal("float", "12.0"))
      [] x.ty = "str" -> Raises("ValueError")
      [] OTHER -> Raises("TypeError")

\* str(x): the value's text, for every value.
PyStrOf(x) == Returns(PyVal("str", x.v))

\* bool(x): the value's truth.
PyBool(x) ==
    Returns(PyVal("bool", IF x \in {PyVal("int", "0"), PyVal("str", ""),
                                     PyVal("float", "0.0"), PyVal("bool", "False")}
                          THEN "False" ELSE "True"))

\* pandas.notna(x)
NotNa(x) == x # PyVal("float", "nan") /\ x # PyNone

\* pandas.to_datetime(x), of type ty when it succeeds: the Timestamp (or its
\* date) made from x.
ToDatetime(x, ty) ==
    CASE x.ty = "str" /\ x.v = "abc" -> Raises("ValueError")
      [] x.ty = "bool" -> Raises("TypeError")
      [] OTHER -> Returns(PyVal(ty, x.v))

\* The values whose conversion to a type tag the source and the libraries'
\* documented behaviour fix: to_datetime of an infinite float and of a bare
\* number in a string are left out.
InputValues(tag) ==
    IF tag \in DateTags
    THEN Values \ {PyVal("float", "inf"), PyVal("str", "12")}
    ELSE Values

\* TYPE_CONVERTERS[target_type](x), for a tag of the table.
TypeConverter(target_type, x) ==
    CASE target_type \in IntTags -> PyInt(x)
      [] target_type \in FloatTags -> PyFloat(x)
      [] target_type \in StrTags -> PyStrOf(x)
      [] target_type = "Date" ->
            IF NotNa(x) THEN ToDatetime(x, "date") ELSE Returns(PyNone)
      [] target_type \in {"DateTime", "DateTime64"} ->
            IF NotNa(x) THEN ToDatetime(x, "Timestamp") ELSE Returns(PyNone)
      [] target_type = "Bool" -> PyBool(x)

\* A default table in which UUID has the empty string, like the other
\* string tags.
DefaultValueUuidEmpty(target_type) ==
    CASE target_type \in IntTags -> PyVal("int", "0")
      [] target_type \in FloatTags -> PyVal("float", "0.0")
      [] target_type \in StrTags -> PyVal("str", "")
      [] target_type = "Bool" -> PyVal("bool", "False")
      [] OTHER -> PyNone

\* DEFAULT_VALUES.get(target_type, None)
DefaultValue(target_type) ==
    CASE target_type \in IntTags -> PyVal("int", "0")
      [] target_type \in FloatTags -> PyVal("float", "0.0")
      [] target_type \in {"String", "FixedString", "Enum8", "Enum16"} -> PyVal("str", "")
      [] target_type = "UUID" -> PyVal("str", "00000000-0000-0000-0000-000000000000")
      [] target_type \in DateTags -> PyNone
      [] target_type = "Bool" -> PyVal("bool", "False")
      [] OTHER -> PyNone

\* The exceptions _convert_value catches.
Caught == {"ValueError", "TypeError"}

\* _convert_value: a null gives the default; a tag without a converter gives
\* the value as it is; a converter's ValueError or TypeError gives the
\* default; any other exception leaves the call.
convert_value(value, target_type) ==
    IF value = PyNone THEN Returns(DefaultValue(target_type))
    ELSE IF target_type \notin TableTags THEN Returns(value)
    ELSE LET r == TypeConverter(target_type, value)
         IN  IF r.exc \in Caught THEN Returns(DefaultValue(target_type)) ELSE r

\* An unmapped column's value is rendered as text.
PassThroughAsText(value) == PyVal("str", value.v)

\* convert_record's branch for a column that is not in the schema mapping.
PassThrough(value) == value

\* One field of convert_record.
ConvertField(schema_mapping, column, value) ==
    IF column \in DOMAIN schema_mapping
    THEN convert_value(value, schema_mapping[column])
    ELSE Returns(PassThrough(value))

\* A conversion that gives every mapped column the record lacks its default.
convert_record_fills_missing(schema_mapping, record) ==
    LET f == [c \in DOMAIN record |-> ConvertField(schema_mapping, c, record[c])]
        bad == {c \in DOMAIN record : f[c].exc # "none"}
    IN  IF bad = {}
        THEN [exc |-> "none",
              rec |-> [c \in DOMAIN record \cup DOMAIN schema_mapping |->
                          IF c \in DOMAIN record THEN f[c].val
                          ELSE DefaultValue(schema_mapping[c])]]
        ELSE [exc |-> f[CHOOSE c \in bad : TRUE].exc, rec |-> record]

\* convert_record: the record's columns, each converted; the call raises
\* what a field's conversion raises.
convert_record(schema_mapping, record) ==
    LET f == [c \in DOMAIN record |-> ConvertField(schema_mapping, c, record[c])]
        bad == {c \in DOMAIN record : f[c].exc # "none"}
    IN  IF bad = {}
        THEN [exc |-> "none", rec |-> [c \in DOMAIN record |-> f[c].val]]
        ELSE [exc |-> f[CHOOSE c \in bad : TRUE].exc, rec |-> record]

\* convert_records: every record converted, in order; the call raises what a
\* record's conversion raises.
convert_records(schema_mapping, records) ==
    LET r == [i \in 1 .. Len(records) |-> convert_record(schema_mapping, records[i])]
        bad == {i \in 1 .. Len(records) : r[i].exc # "none"}
    IN  IF bad = {}
        THEN [exc |-> "none", out |-> [i \in 1 .. Len(records) |-> r[i].rec]]
        ELSE [exc |-> r[CHOOSE i \in bad : \A j \in bad : i <= j].exc, out |-> <<>>]

\* ------------------------------------------ ClickHouseConnector (destination)

\* A connect that raises when its test query fails.
ClickHouseConnectStrict(client, out) ==
    IF out = "client_error" THEN [client |-> client, raised |-> TRUE]
    ELSE [client |-> "client", raised |-> (out = "liveness_error")]

\* ClickHouseConnector.connect: self.client after the call and whether it
\* raised.  out is "ok", "liveness_error" (SELECT 1 failed: logged only) or
\* "client_error" (constructing the client raised).
ClickHouseConnect(client, out) ==
    IF out = "client_error" THEN [client |-> client, raised |-> TRUE]
    ELSE [client |-> "client", raised |-> FALSE]

\* What became of connect's "SELECT 1": not sent when the client could not be
\* constructed, answered, or failed (logged as a warning).
LivenessTest(out) ==
    IF out = "client_error" THEN "none"
    ELSE IF out = "ok" THEN "answered" ELSE "failed"

Probes == {"exists", "max", "count", "alt"}

\* Whether a probe statement raises: an injected fault, or a read of a table
\* that does not exist.
ProbeFails(p, faults, tbl) == p \in faults \/ (p # "exists" /\ ~tbl)

Ret(v, p) == [kind |-> "return", value |-> v, probes |-> p]
Raise(p) == [kind |-> "raise", value |-> PyInt0, probes |-> p]

\* The statement without its aggregate: the first row's identifier.
MaxQueryFirstRow(d) == IF Len(d) = 0 THEN PyStr(<<0>>) ELSE PyStr(d[1])

\* SELECT COALESCE(MAX(id_column), '0'): the destination's greatest String.
MaxQuery(d) == IF Len(d) = 0 THEN PyStr(<<0>>) ELSE PyStr(StrMax(Range(d)))

\* A fallback that hands back the count probe's number as the identifier.
AltQueryReturnsCount(d) == IF Len(d) = 0 THEN PyInt0 ELSE PyStr(Digits(Len(d)))

\* SELECT id_column ... ORDER BY id_column DESC LIMIT 1, with the
\* "alt_result[0][0] if alt_result and alt_result[0] else 0" default.
AltQuery(d) == IF Len(d) = 0 THEN PyInt0 ELSE PyStr(StrMax(Range(d)))

\* except Exception as second_error: return 0
OnSecondError(p) == Ret(PyInt0, p)

FallbackAlwaysAlt(faults, tbl, d, p) ==
    LET p1 == Append(p, "count")
        p2 == Append(p1, "alt")
    IN IF ProbeFails("count", faults, tbl) THEN OnSecondError(p1)
       ELSE IF ProbeFails("alt", faults, tbl) THEN OnSecondError(p2)
       ELSE Ret(AltQuery(d), p2)

\* The handler of a failed MAX probe: the count probe, then the ORDER BY probe.
Fallback(faults, tbl, d, p) ==
    LET p1 == Append(p, "count")
        p2 == Append(p1, "alt")
    IN IF ProbeFails("count", faults, tbl) THEN OnSecondError(p1)
       ELSE IF Len(d) = 0 THEN Ret(PyInt0, p1)
       ELSE IF ProbeFails("alt", faults, tbl) THEN OnSecondError(p2)
       ELSE Ret(AltQuery(d), p2)

\* The MAX probe and what follows it.
MaxProbe(faults, tbl, d, p) ==
    LET p1 == Append(p, "max")
    IN IF ProbeFails("max", faults, tbl) THEN Fallback(faults, tbl, d, p1)
       ELSE Ret(MaxQuery(d), p1)

ExistsCheckNoReturn(faults, tbl, d) == MaxProbe(faults, tbl, d, <<"exists">>)

\* A check whose failure is taken for the table's absence.
ExistsCheckFailureMeansAbsent(faults, tbl, d) ==
    IF ProbeFails("exists", faults, tbl) \/ ~tbl THEN Ret(PyInt0, <<"exists">>)
    ELSE MaxProbe(faults, tbl, d, <<"exists">>)

\* The EXISTS TABLE check: an absent table returns 0 at once, a failed check
\* is logged and resolution goes on.
ExistsCheck(faults, tbl, d) ==
    IF ProbeFails("exists", faults, tbl) THEN MaxProbe(faults, tbl, d, <<"exists">>)
    ELSE IF ~tbl THEN Ret(PyInt0, <<"exists">>)
    ELSE MaxProbe(faults, tbl, d, <<"exists">>)

GetLastSyncIdLogAndRaise(faults, tbl, d) ==
    LET r == ExistsCheck(faults, tbl, d)
    IN IF \A q \in Range(r.probes) : ProbeFails(q, faults, tbl)
       THEN Raise(r.probes) ELSE r

\* ClickHouseConnector.get_last_sync_id: the body under the outer handler,
\* which turns any escaping exception into 0.
GetLastSyncId(faults, tbl, d) ==
    LET r == ExistsCheck(faults, tbl, d)
    IN IF r.kind = "raise" THEN Ret(PyInt0, r.probes) ELSE r

\* The number of INSERT statements insert_data sends for data when none fails:
\* len(range(0, len(data), batch_size)).
NumSubBatches(data) == (Len(data) + InsertBatchSize - 1) \div InsertBatchSize

\* The record insert_data logs as "First record" when a statement raised:
\* data[0] of the whole call.
FirstRecordLogged(data) == IF Len(data) > 0 THEN data[1] ELSE <<>>

RECURSIVE InsertLoopSkipFailed(_, _, _, _, _, _)
InsertLoopSkipFailed(d, data, i, total_inserted, sent, fail_at) ==
    LET hi == IF i + InsertBatchSize < Len(data) THEN i + InsertBatchSize ELSE Len(data)
        batch == SubSeq(data, i + 1, hi)
    IN IF i >= Len(data)
       THEN [dest |-> d, raised |-> FALSE, total |-> total_inserted, sent |-> sent,
             diag |-> <<>>]
       ELSE IF i \div InsertBatchSize = fail_at
       THEN InsertLoopSkipFailed(d, data, hi, total_inserted, sent + 1, fail_at)
       ELSE InsertLoopSkipFailed(d \o batch, data, hi, total_inserted + Len(batch),
                                 sent + 1, fail_at)

RECURSIVE InsertLoopResend(_, _, _, _, _, _)
\* A loop that sends a rejected sub-batch a second time before giving up.
InsertLoopResend(d, data, i, total_inserted, sent, fail_at) ==
    LET hi == IF i + InsertBatchSize < Len(data) THEN i + InsertBatchSize ELSE Len(data)
        batch == SubSeq(data, i + 1, hi)
    IN IF i >= Len(data)
       THEN [dest |-> d, raised |-> FALSE, total |-> total_inserted, sent |-> sent,
             diag |-> <<>>]
       ELSE IF i \div InsertBatchSize = fail_at
       THEN [dest |-> d, raised |-> TRUE, total |-> total_inserted, sent |-> sent + 2,
             diag |-> FirstRecordLogged(data)]
       ELSE InsertLoopResend(d \o batch, data, hi, total_inserted + Len(batch),
                             sent + 1, fail_at)

\* A call that sends all of data in one statement.
InsertLoopUnsplit(d, data, i, total_inserted, sent, fail_at) ==
    IF i >= Len(data)
    THEN [dest |-> d, raised |-> FALSE, total |-> total_inserted, sent |-> sent,
          diag |-> <<>>]
    ELSE IF fail_at = 0
    THEN [dest |-> d, raised |-> TRUE, total |-> total_inserted, sent |-> sent + 1,
          diag |-> FirstRecordLogged(data)]
    ELSE [dest |-> d \o SubSeq(data, i + 1, Len(data)), raised |-> FALSE,
          total |-> total_inserted + Len(data) - i, sent |-> sent + 1, diag |-> <<>>]

RECURSIVE InsertLoopCompensates(_, _, _, _, _, _)
\* A loop whose handler deletes the sub-batches the call had inserted.
InsertLoopCompensates(d, data, i, total_inserted, sent, fail_at) ==
    LET hi == IF i + InsertBatchSize < Len(data) THEN i + InsertBatchSize ELSE Len(data)
        batch == SubSeq(data, i + 1, hi)
    IN IF i >= Len(data)
       THEN [dest |-> d, raised |-> FALSE, total |-> total_inserted, sent |-> sent,
             diag |-> <<>>]
       ELSE IF i \div InsertBatchSize = fail_at
       THEN [dest |-> SubSeq(d, 1, Len(d) - i), raised |-> TRUE, total |-> 0,
             sent |-> sent + 1, diag |-> FirstRecordLogged(data)]
       ELSE InsertLoopCompensates(d \o batch, data, hi, total_inserted + Len(batch),
                                  sent + 1, fail_at)

RECURSIVE InsertLoop(_, _, _, _, _, _)
\* The loop of insert_data from offset i: each sub-batch data[i:i+batch_size]
\* is appended to the table d in turn; the statement of sub-batch number
\* fail_at raises and ends the call in the handler, which logs the first
\* record.  sent counts the INSERT statements executed.
InsertLoop(d, data, i, total_inserted, sent, fail_at) ==
    LET hi == IF i + InsertBatchSize < Len(data) THEN i + InsertBatchSize ELSE Len(data)
        batch == SubSeq(data, i + 1, hi)
    IN IF i >= Len(data)
       THEN [dest |-> d, raised |-> FALSE, total |-> total_inserted, sent |-> sent,
             diag |-> <<>>]
       ELSE IF i \div InsertBatchSize = fail_at
       THEN [dest |-> d, raised |-> TRUE, total |-> total_inserted, sent |-> sent + 1,
             diag |-> FirstRecordLogged(data)]
       ELSE InsertLoop(d \o batch, data, hi, total_inserted + Len(batch),
                       sent + 1, fail_at)

\* ClickHouseConnector.insert_data on a connected client.
InsertData(d, data, fail_at) == InsertLoop(d, data, 0, 0, 0, fail_at)

\* ------------------------------------------------------------------ state

VARIABLES
    pc,                \* main: "wait_ch", "after_wait", "initial_sync", "after_initial",
                       \*       "sleep", "periodic_sync", "after_periodic", "exited"
    retries,           \* main: retries left of the startup poll
    exit_code,         \* the process's exit status once pc = "exited"
    docker_container,  \* os.environ['DOCKER_CONTAINER'] after main's setup
    source,            \* the identifiers of the rows the source query can see
    table_exists,      \* whether the destination table has been provisioned
    dest,              \* the destination table: act_aa_id of each row, in insert order
    oracle_connection, \* OracleConnector.connection: "None" or "open"
    ch_client,         \* ClickHouseConnector.client: "None" or "client"
    spc,               \* sync(): "idle", "oracle_connected", "ch_connected",
                       \*         "resolved", "fetched", "converted", "returning", "failed"
    last_id,           \* sync(): the watermark get_last_sync_id returned
    rows,              \* sync(): the rows execute_query returned
    converted_data,    \* sync(): the converted records
    result,            \* sync(): the value being returned
    sync_outcome,      \* how the last call of sync() ended: "none", "returned", "raised"
    fail_step,         \* history: the step that raised in the current/last pass
    wm,                \* history: the get_last_sync_id call sync() has just made
    cur,               \* history: the current pass
    prev,              \* history: the pass before the current one
    src_dirty,         \* history: the source gained a row since the last query
    startup,           \* history: the startup poll
    conv,              \* DataTypeConverter under test: its mapping, a batch, the result
    pl                 \* syncpl.py: the open cursor, its position, total_records

vars == <<pc, retries, exit_code, docker_container, source, table_exists, dest,
          oracle_connection, ch_client, spc, last_id, rows, converted_data, result,
          sync_outcome, fail_step, wm, cur, prev, src_dirty, startup, conv, pl>>

mainVars == <<pc, retries, exit_code, docker_container, startup>>
envVars == <<source, table_exists>>
connVars == <<oracle_connection, ch_client>>
passVars == <<last_id, rows, converted_data, result>>
histVars == <<wm, cur, prev, src_dirty>>

\* cur: the destination's row count when the pass began, whether the source
\* was the same at this pass's query as at the previous query, whether
\* every watermark probe of the pass succeeded; the steps the pass has taken,
\* the rows its query produced, the numbers of fetchmany, convert_records and
\* insert calls and of INSERT statements, the size of each insert call, the
\* number of the sub-batch the destination rejected (-1: none), the record
\* logged for it and the number of destination clients the pass constructed.
NoCur == [dest_before |-> 0, src_same |-> FALSE, clean |-> FALSE,
          steps |-> <<>>, cursor |-> <<>>, fetch_calls |-> 0, convert_calls |-> 0,
          insert_calls |-> 0, stmts |-> 0, cycles |-> <<>>, fail_k |-> -1,
          diag |-> <<>>, clients_opened |-> 0]

\* prev: how the previous pass ended, the greatest identifier it fetched and
\* the greatest it inserted (0 when none), the number its watermark stood for
\* and whether every watermark probe it made succeeded.
NoPrev == [outcome |-> "none", max_fetched |-> 0, max_inserted |-> 0, wm |-> 0,
           clean |-> FALSE]

NoWm == [faults |-> {}, tbl |-> FALSE, rows |-> 0, probes |-> <<>>,
         kind |-> "none", value |-> PyInt0]

\* No converter call under test.
NoConv == [pc |-> "off", tag |-> "String", batch |-> <<>>, exc |-> "none",
           out |-> <<>>]

\* No cursor open in syncpl.py.
NoPl == [cursor |-> <<>>, pos |-> 0, total_records |-> 0]

\* main's setup of the DOCKER_CONTAINER flag: set to "1" when it is unset.
SetDockerFlag(env) == IF env = "unset" THEN "1" ELSE env

\* No pass has run: both stores are empty, no connection is open.
NoPass ==
    /\ source = {}
    /\ dest = <<>>
    /\ oracle_connection = "None"
    /\ ch_client = "None"
    /\ spc = "idle"
    /\ last_id = PyInt0
    /\ rows = <<>>
    /\ converted_data = <<>>
    /\ result = 0
    /\ sync_outcome = "none"
    /\ fail_step = "none"
    /\ wm = NoWm
    /\ cur = NoCur
    /\ prev = NoPrev
    /\ src_dirty = FALSE

Init ==
    /\ pc = "wait_ch"
    /\ retries = StartupRetries
    /\ exit_code = 0
    /\ \E env \in {"unset", "", "1"} : docker_container = SetDockerFlag(env)
    /\ table_exists \in BOOLEAN
    /\ NoPass
    /\ startup = [attempts |-> 0, connected |-> FALSE, slept |-> 0, test |-> "none"]
    /\ conv = NoConv
    /\ pl = NoPl

\* ------------------------------------------------------------- environment

\* The source gains a row with a new, larger identifier.
AddSourceRow ==
    /\ \E id \in Ids :
          /\ \A j \in source : j < id
          /\ source' = source \cup {id}
    /\ src_dirty' = TRUE
    /\ UNCHANGED <<conv, pl, mainVars, table_exists, dest, connVars, spc, passVars,
                   sync_outcome, fail_step, wm, cur, prev>>

\* The destination table is provisioned by its owner.
ProvisionTable ==
    /\ ~table_exists
    /\ table_exists' = TRUE
    /\ UNCHANGED <<conv, pl, mainVars, source, dest, connVars, spc, passVars,
                   sync_outcome, fail_step, histVars>>

\* -------------------------------------------------------------------- main

\* One turn of "while retries > 0": clickhouse_connector.connect(), break on
\* success; on an exception retries -= 1 and time.sleep(5).
MainConnectAttempt ==
    /\ pc = "wait_ch"
    /\ retries > 0
    /\ \E out \in {"ok", "liveness_error", "client_error"} :
          LET c == ClickHouseConnect(ch_client, out)
          IN /\ ch_client' = c.client
             /\ IF c.raised
                THEN /\ retries' = retries - 1
                     /\ startup' = [startup EXCEPT !.attempts = @ + 1,
                                                   !.slept = @ + StartupDelay,
                                                   !.test = LivenessTest(out)]
                     /\ pc' = IF retries - 1 > 0 THEN "wait_ch" ELSE "after_wait"
                ELSE /\ retries' = retries
                     /\ startup' = [startup EXCEPT !.attempts = @ + 1,
                                                   !.connected = TRUE,
                                                   !.test = LivenessTest(out)]
                     /\ pc' = "after_wait"
    /\ UNCHANGED <<conv, pl, exit_code, docker_container, envVars, dest, oracle_connection,
                   spc, passVars, sync_outcome, fail_step, histVars>>

RetriesExhaustedNever(r) == r < 0

\* Whether main gives up after the startup poll: "if retries <= 0".
RetriesExhausted(r) == r <= 0

\* After the poll: "if retries <= 0: return", else the syncer is built and
\* the initial sync is called.  retries is not read after this test: the
\* poll's counters are dropped from the state here.
MainAfterWait ==
    /\ pc = "after_wait"
    /\ IF RetriesExhausted(retries)
       THEN pc' = "exited" /\ exit_code' = 0
       ELSE pc' = "initial_sync" /\ exit_code' = exit_code
    /\ retries' = 0
    /\ startup' = [startup EXCEPT !.attempts = 0, !.slept = 0, !.test = "none"]
    /\ UNCHANGED <<conv, pl, docker_container, envVars, dest, connVars,
                   spc, passVars, sync_outcome, fail_step, histVars>>

\* What main does with the way a call of syncer.sync() ended: an exception
\* reaches "except Exception: sys.exit(1)"; after a return the loop sleeps
\* (container mode) or main ends.
MainAfterSync ==
    /\ pc \in {"after_initial", "after_periodic"}
    /\ IF sync_outcome = "raised"
       THEN pc' = "exited" /\ exit_code' = 1
       ELSE IF pc = "after_periodic" \/ docker_container # ""
       THEN pc' = "sleep" /\ exit_code' = exit_code
       ELSE pc' = "exited" /\ exit_code' = 0
    /\ UNCHANGED <<conv, pl, retries, docker_container, startup, envVars, dest, connVars,
                   spc, passVars, sync_outcome, fail_step, histVars>>

\* time.sleep(sync_interval), then the periodic sync is called.
MainSleep ==
    /\ pc = "sleep"
    /\ pc' = "periodic_sync"
    /\ UNCHANGED <<conv, pl, retries, exit_code, docker_container, startup, envVars, dest,
                   connVars, spc, passVars, sync_outcome, fail_step, histVars>>

\* ------------------------------------------- OracleToClickHouseSyncer.sync

\* sync() is started on a thread of its own and main goes on at once.
SyncOracleConnectDetached ==
    /\ pc \in {"initial_sync", "periodic_sync"}
    /\ spc = "idle"
    /\ Len(dest) + NumIds <= MaxDest
    /\ \E out \in {"ok", "connect_error", "liveness_error"} :
          LET c == OracleConnect(oracle_connection, out)
          IN /\ oracle_connection' = c.connection
             /\ spc' = IF c.raised THEN "failed" ELSE "oracle_connected"
             /\ fail_step' = IF c.raised THEN "oracle_connect" ELSE "none"
    /\ sync_outcome' = "none"
    /\ prev' = [outcome |-> sync_outcome,
                 max_fetched |-> IF Len(rows) = 0 THEN 0 ELSE MaxNum(Range(rows)),
                 max_inserted |-> IF Len(dest) = cur.dest_before THEN 0
                                  ELSE MaxNum({ToNumber(dest[i]) :
                                               i \in cur.dest_before + 1 .. Len(dest)}),
                 wm |-> ToNumber(last_id.s),
                 clean |-> cur.clean]
    /\ cur' = [NoCur EXCEPT !.dest_before = Len(dest), !.steps = <<"src_connect">>]
    /\ last_id' = PyInt0
    /\ rows' = <<>>
    /\ converted_data' = <<>>
    /\ result' = 0
    /\ pc' = IF pc = "initial_sync" THEN "after_initial" ELSE "after_periodic"
    /\ UNCHANGED <<conv, pl, retries, exit_code, docker_container, startup, envVars,
                   dest, ch_client, wm, src_dirty>>

\* sync() is entered and self.oracle.connect() is called.
SyncOracleConnect ==
    /\ pc \in {"initial_sync", "periodic_sync"}
    /\ spc = "idle"
    /\ Len(dest) + NumIds <= MaxDest
    /\ \E out \in {"ok", "connect_error", "liveness_error"} :
          LET c == OracleConnect(oracle_connection, out)
          IN /\ oracle_connection' = c.connection
             /\ spc' = IF c.raised THEN "failed" ELSE "oracle_connected"
             /\ fail_step' = IF c.raised THEN "oracle_connect" ELSE "none"
    /\ sync_outcome' = "none"
    /\ prev' = [outcome |-> sync_outcome,
                 max_fetched |-> IF Len(rows) = 0 THEN 0 ELSE MaxNum(Range(rows)),
                 max_inserted |-> IF Len(dest) = cur.dest_before THEN 0
                                  ELSE MaxNum({ToNumber(dest[i]) :
                                               i \in cur.dest_before + 1 .. Len(dest)}),
                 wm |-> ToNumber(last_id.s),
                 clean |-> cur.clean]
    /\ cur' = [NoCur EXCEPT !.dest_before = Len(dest), !.steps = <<"src_connect">>]
    /\ last_id' = PyInt0
    /\ rows' = <<>>
    /\ converted_data' = <<>>
    /\ result' = 0
    /\ UNCHANGED <<conv, pl, mainVars, envVars, dest, ch_client, wm, src_dirty>>

\* self.clickhouse.connect()
SyncClickHouseConnect ==
    /\ spc = "oracle_connected"
    /\ \E out \in {"ok", "liveness_error", "client_error"} :
          LET c == ClickHouseConnect(ch_client, out)
          IN /\ ch_client' = c.client
             /\ spc' = IF c.raised THEN "failed" ELSE "ch_connected"
             /\ fail_step' = IF c.raised THEN "ch_connect" ELSE fail_step
             /\ cur' = [cur EXCEPT !.steps = Append(@, "dst_connect"),
                                   !.clients_opened = IF out = "client_error"
                                                      THEN @ ELSE @ + 1]
    /\ UNCHANGED <<conv, pl, mainVars, envVars, dest, oracle_connection, passVars,
                   sync_outcome, wm, prev, src_dirty>>

\* last_id = self.clickhouse.get_last_sync_id(...)
SyncGetLastSyncId ==
    /\ spc = "ch_connected"
    /\ \E faults \in SUBSET Probes :
          LET r == GetLastSyncId(faults, table_exists, dest)
          IN /\ wm' = [faults |-> faults \cap Range(r.probes), tbl |-> table_exists,
                       rows |-> Len(dest), probes |-> r.probes,
                       kind |-> r.kind, value |-> r.value]
             /\ cur' = [cur EXCEPT !.clean =
                            \A q \in Range(r.probes) : ~ProbeFails(q, faults, table_exists),
                                   !.steps = Append(@, "watermark")]
             /\ last_id' = IF r.kind = "raise" THEN last_id ELSE r.value
             /\ spc' = IF r.kind = "raise" THEN "failed" ELSE "resolved"
             /\ fail_step' = IF r.kind = "raise" THEN "watermark" ELSE fail_step
    /\ UNCHANGED <<conv, pl, mainVars, envVars, dest, connVars, rows, converted_data,
                   result, sync_outcome, prev, src_dirty>>

\* columns, rows = self.oracle.execute_query(self.source_query, [last_id], ...)
\* (self.connection is open here, so execute_query does not reconnect).
SyncExecuteQuery ==
    /\ spc = "resolved"
    /\ \E out \in {"ok", "query_error"} :
          IF out = "ok"
          THEN LET q == ExecuteQuery(source, last_id)
               IN /\ rows' = q.rows
                  /\ spc' = "fetched"
                  /\ fail_step' = fail_step
                  /\ cur' = [cur EXCEPT !.src_same = ~src_dirty,
                                        !.steps = Append(@, "query"),
                                        !.cursor = SourceQuery(source, last_id),
                                        !.fetch_calls = q.calls]
          ELSE /\ rows' = rows
               /\ spc' = "failed"
               /\ fail_step' = "query"
               /\ cur' = [cur EXCEPT !.src_same = ~src_dirty,
                                     !.steps = Append(@, "query")]
    /\ src_dirty' = FALSE
    /\ wm' = NoWm
    /\ UNCHANGED <<conv, pl, mainVars, envVars, dest, connVars, last_id, converted_data,
                   result, sync_outcome, prev>>

SyncConvertNoEmptyCheck ==
    /\ spc = "fetched"
    /\ \E out \in {"ok", "error"} :
          IF out = "error" /\ Len(rows) > 0
          THEN /\ spc' = "failed"
               /\ fail_step' = "convert"
               /\ cur' = [cur EXCEPT !.convert_calls = @ + 1]
               /\ UNCHANGED <<converted_data, result>>
          ELSE /\ spc' = "converted"
               /\ converted_data' = ConvertRecords(rows)
               /\ cur' = [cur EXCEPT !.convert_calls = @ + 1]
               /\ UNCHANGED <<result, fail_step>>
    /\ UNCHANGED <<conv, pl, mainVars, envVars, dest, connVars, last_id, rows,
                   sync_outcome, wm, prev, src_dirty>>

\* The DataFrame is built; "if df.empty: return 0"; otherwise convert_records
\* is called.  An exception that convert_records does not handle (raised by
\* the conversion of another column of a record) ends the pass.
SyncConvert ==
    /\ spc = "fetched"
    /\ \E out \in {"ok", "error"} :
          IF Len(rows) = 0
          THEN /\ spc' = "returning"
               /\ result' = 0
               /\ UNCHANGED <<converted_data, fail_step, cur>>
          ELSE IF out = "error"
          THEN /\ spc' = "failed"
               /\ fail_step' = "convert"
               /\ cur' = [cur EXCEPT !.convert_calls = @ + 1]
               /\ UNCHANGED <<converted_data, result>>
          ELSE /\ spc' = "converted"
               /\ converted_data' = ConvertRecords(rows)
               /\ cur' = [cur EXCEPT !.convert_calls = @ + 1]
               /\ UNCHANGED <<result, fail_step>>
    /\ UNCHANGED <<conv, pl, mainVars, envVars, dest, connVars, last_id, rows,
                   sync_outcome, wm, prev, src_dirty>>

\* inserted = self.clickhouse.insert_data(...); return inserted.  A statement
\* on a table that does not exist fails.
SyncInsert ==
    /\ spc = "converted"
    /\ \E fail_at \in 0 .. NumSubBatches(converted_data) :
          /\ ~table_exists => fail_at = 0
          /\ LET r == InsertData(dest, converted_data, fail_at)
             IN /\ dest' = r.dest
                /\ spc' = IF r.raised THEN "failed" ELSE "returning"
                /\ fail_step' = IF r.raised THEN "insert" ELSE fail_step
                /\ result' = IF r.raised THEN result ELSE r.total
                /\ cur' = [cur EXCEPT !.insert_calls = @ + 1,
                                      !.stmts = @ + r.sent,
                                      !.cycles = Append(@, Len(r.dest) - Len(dest)),
                                      !.fail_k = IF fail_at < NumSubBatches(converted_data)
                                                THEN fail_at ELSE -1,
                                      !.diag = r.diag]
    /\ UNCHANGED <<conv, pl, mainVars, envVars, connVars, last_id, rows, converted_data,
                   sync_outcome, wm, prev, src_dirty>>

\* "finally: self.oracle.close()", then sync() returns or re-raises to main.
SyncFinally ==
    /\ spc \in {"returning", "failed"}
    /\ oracle_connection' = OracleClose(oracle_connection)
    /\ sync_outcome' = IF spc = "failed" THEN "raised" ELSE "returned"
    /\ spc' = "idle"
    /\ pc' = IF pc = "initial_sync" THEN "after_initial" ELSE "after_periodic"
    /\ UNCHANGED <<conv, pl, retries, exit_code, docker_container, startup, envVars, dest,
                   ch_client, passVars, fail_step, histVars>>

Next ==
    \/ AddSourceRow
    \/ ProvisionTable
    \/ MainConnectAttempt
    \/ MainAfterWait
    \/ MainAfterSync
    \/ MainSleep
    \/ SyncOracleConnect
    \/ SyncClickHouseConnect
    \/ SyncGetLastSyncId
    \/ SyncExecuteQuery
    \/ SyncConvert
    \/ SyncInsert
    \/ SyncFinally

Spec == Init /\ [][Next]_vars

\* ------------------------------------------- DataTypeConverter on its own

\* The converter's schema mapping: column "a" has the type tag under test,
\* column "b" is an Int32; column "c" is not mapped.
SchemaMapping(tag) == [a |-> tag, b |-> "Int32"]

\* The records of a batch: one with every column, whose unmapped column is
\* null, and one without column "b".
Records(tag) ==
    {[a |-> v, b |-> PyVal("int", "12"), c |-> PyNone] : v \in InputValues(tag)}
        \cup {[a |-> v, c |-> PyVal("str", "abc")] : v \in InputValues(tag)}

\* A converter is constructed with a schema mapping; no batch yet.
InitConv ==
    /\ pc = "converter"
    /\ retries = 0
    /\ exit_code = 0
    /\ docker_container = ""
    /\ table_exists = FALSE
    /\ NoPass
    /\ startup = [attempts |-> 0, connected |-> FALSE, slept |-> 0, test |-> "none"]
    /\ \E tag \in Tags : conv = [NoConv EXCEPT !.pc = "batch", !.tag = tag]
    /\ pl = NoPl

\* The caller's batch gains a record.
ConvAddRecord ==
    /\ conv.pc = "batch"
    /\ Len(conv.batch) < MaxBatch
    /\ \E r \in Records(conv.tag) :
          conv' = [conv EXCEPT !.batch = Append(@, r)]
    /\ UNCHANGED <<pl, mainVars, envVars, dest, connVars, spc, passVars,
                   sync_outcome, fail_step, histVars>>

\* convert_records(batch) is called and returns or raises.
ConvConvertRecords ==
    /\ conv.pc = "batch"
    /\ LET r == convert_records(SchemaMapping(conv.tag), conv.batch)
       IN  conv' = [conv EXCEPT !.pc = "done", !.exc = r.exc, !.out = r.out]
    /\ UNCHANGED <<pl, mainVars, envVars, dest, connVars, spc, passVars,
                   sync_outcome, fail_step, histVars>>

NextConv ==
    \/ ConvAddRecord
    \/ ConvConvertRecords

SpecConv == InitConv /\ [][NextConv]_vars

\* ------------------------------------------------------------------ claims

\* The rows the current pass has appended to the destination.
InsertedThisPass == SubSeq(dest, cur.dest_before + 1, Len(dest))

\* Every probe the last get_last_sync_id call executed failed.
EveryProbeFailed == \A q \in Range(wm.probes) : ProbeFails(q, wm.faults, wm.tbl)

\* main has got as far as calling syncer.sync().
PassAttempted ==
    \/ pc \in {"initial_sync", "after_initial", "sleep", "periodic_sync", "after_periodic"}
    \/ spc # "idle"
    \/ sync_outcome # "none"

\* C1: whenever sync() is not running (it has returned or raised, whichever
\* step failed, or has not been called yet) the source connection is closed.
C1_SourceClosedAfterSync == spc = "idle" => oracle_connection = "None"

\* C1 witness: a pass whose insert failed has ended and the connection is closed.
C1_Witness ==
    /\ spc = "idle"
    /\ sync_outcome = "raised"
    /\ fail_step = "insert"
    /\ oracle_connection = "None"

\* C2: the watermark resolved at the start of a pass is at least the greatest
\* identifier the previous pass inserted (stated here for passes whose probes
\* all succeed, a case of the claim).
C2_WatermarkMonotone ==
    (spc = "resolved" /\ cur.clean /\ prev.outcome # "none")
        => ToNumber(last_id.s) >= prev.max_inserted

\* C3: a pass that follows a successful pass with no new source row in
\* between returns 0 and leaves the destination's row count unchanged (stated
\* here for second passes whose probes all succeed, a case of the claim).
C3_IdempotentResumption ==
    (spc = "idle" /\ sync_outcome = "returned" /\ prev.outcome = "returned"
        /\ cur.src_same /\ cur.clean)
        => (result = 0 /\ Len(dest) = cur.dest_before)

\* C4, first part: a pass that succeeds on a non-empty fetch has appended
\* exactly the fetched rows, in order, and returns their number.
C4_PassInsertsFetched ==
    (spc = "idle" /\ sync_outcome = "returned" /\ Len(rows) > 0)
        => (InsertedThisPass = ConvertRecords(rows) /\ result = Len(rows))

\* C4: first part, and the watermark resolved at the start of the next pass is
\* the greatest identifier the pass fetched (stated here for next passes whose
\* probes all succeed, a case of the claim).
C4_SuccessfulPass ==
    /\ C4_PassInsertsFetched
    /\ (spc = "resolved" /\ cur.clean /\ prev.outcome = "returned"
            /\ prev.max_fetched > 0)
          => ToNumber(last_id.s) = prev.max_fetched

\* C5: get_last_sync_id never raises, whichever probes fail, and returns the
\* int 0 when every probe it executed failed.
C5_GetLastSyncIdNeverRaises ==
    /\ fail_step # "watermark"
    /\ wm.kind # "raise"
    /\ (wm.kind = "return" /\ EveryProbeFailed) => wm.value = PyInt0

\* C5 witness: the existence check, the MAX probe and the count probe all
\* failed on an existing table and the call returned 0.
C5_Witness ==
    /\ wm.kind = "return"
    /\ wm.tbl
    /\ wm.faults = {"exists", "max", "count"}
    /\ wm.value = PyInt0
    /\ spc = "resolved"

\* C6: when the table exists and the MAX probe fails the count probe is the
\* next statement, and a count of 0 returns 0 with no ORDER BY probe.
C6_FallbackCountProbe ==
    (wm.kind = "return" /\ wm.tbl /\ "max" \in wm.faults)
        => /\ Len(wm.probes) >= 3
           /\ SubSeq(wm.probes, 1, 3) = <<"exists", "max", "count">>
           /\ ("count" \notin wm.faults /\ wm.rows = 0)
                 => (wm.value = PyInt0 /\ wm.probes = <<"exists", "max", "count">>)

\* C6 witness: MAX failed on an existing empty table, the count probe
\* answered 0 and the call returned 0 after three statements.
C6_Witness ==
    /\ wm.kind = "return"
    /\ wm.tbl
    /\ wm.faults = {"max"}
    /\ wm.rows = 0
    /\ wm.probes = <<"exists", "max", "count">>
    /\ wm.value = PyInt0

\* C7: when the existence check reports no table, get_last_sync_id returns 0
\* and the existence check is the only statement it executed.
C7_AbsentTableReturnsZero ==
    (wm.kind = "return" /\ ~wm.tbl /\ "exists" \notin wm.faults)
        => (wm.value = PyInt0 /\ wm.probes = <<"exists">>)

\* C7 witness: the existence check succeeded on an absent table.
C7_Witness ==
    /\ wm.kind = "return"
    /\ ~wm.tbl
    /\ wm.faults = {}
    /\ wm.probes = <<"exists">>
    /\ wm.value = PyInt0

\* C8: once startup has completed, a pass that fails does not end the process.
C8_FailedPassKeepsRunning == sync_outcome = "raised" => pc # "exited"

\* C9: the process ends with a non-zero status exactly when the startup poll
\* never connected.
C9_NonZeroExitOnlyOnStartupFailure ==
    pc = "exited" => ((exit_code # 0) <=> ~startup.connected)

\* C10: the startup poll makes at most 5 attempts, sleeps the fixed delay
\* after each failed one, gives up only after 5 failures, goes on after a
\* success (also on the last attempt), and no pass is attempted unless an
\* attempt succeeded.
C10_StartupPoll ==
    /\ startup.attempts <= StartupRetries
    /\ pc \in {"wait_ch", "after_wait"} =>
          /\ startup.slept = StartupDelay * (StartupRetries - retries)
          /\ startup.attempts = (StartupRetries - retries)
                                  + (IF startup.connected THEN 1 ELSE 0)
    /\ (pc = "after_wait" /\ ~startup.connected) => startup.attempts = StartupRetries
    /\ (pc = "after_wait" /\ startup.connected) => retries > 0
    /\ PassAttempted => startup.connected
    /\ (pc = "exited" /\ ~startup.connected) => ~PassAttempted

\* C10 witness: the fifth attempt succeeded after four failures.
C10_Witness ==
    /\ pc = "after_wait"
    /\ startup.connected
    /\ startup.attempts = StartupRetries
    /\ retries = 1

\* C11: when the source query returns no rows sync() returns 0 without
\* raising, convert_records and insert_data are not called and the
\* destination is unchanged.
C11_EmptyFetchReturnsZero ==
    (cur.fetch_calls > 0 /\ Len(rows) = 0 /\ spc \in {"returning", "idle"})
        => /\ result = 0
           /\ fail_step = "none"
           /\ cur.convert_calls = 0
           /\ cur.insert_calls = 0
           /\ cur.stmts = 0
           /\ Len(dest) = cur.dest_before
           /\ spc = "idle" => sync_outcome = "returned"

\* C11 witness: a pass on a non-empty destination fetched nothing and returned.
C11_Witness ==
    /\ spc = "idle"
    /\ sync_outcome = "returned"
    /\ cur.fetch_calls > 0
    /\ Len(rows) = 0
    /\ Len(dest) > 0
    /\ result = 0

\* C13: when the destination rejects sub-batch k of insert_data, the call
\* raises, exactly the statements of sub-batches 0 .. k were sent, the
\* destination holds the k sub-batches before it, and sync() raises.
C13_InsertFailureAbortsCall ==
    cur.fail_k >= 0
        => /\ fail_step = "insert"
           /\ spc \in {"failed", "idle"}
           /\ cur.stmts = cur.fail_k + 1
           /\ InsertedThisPass = SubSeq(converted_data, 1, cur.fail_k * InsertBatchSize)
           /\ result = 0
           /\ spc = "idle" => sync_outcome = "raised"

\* C13 witness: the first of two sub-batches was rejected; the second was
\* never sent.
C13_Witness ==
    /\ cur.fail_k = 0
    /\ NumSubBatches(converted_data) = 2
    /\ cur.stmts = 1
    /\ sync_outcome = "raised"

\* C14: the record logged for a rejected sub-batch k is the first record of
\* sub-batch k.
C14_DiagnosticIsFirstOfFailingSubBatch ==
    cur.fail_k >= 0
        => cur.diag = converted_data[cur.fail_k * InsertBatchSize + 1]

\* C15: the rows a pass appends to the destination are, in order, the rows
\* its query produced (ascending identifier): always a prefix of them, and
\* all of them once the pass has returned.
C15_InsertOrderIsSourceOrder ==
    /\ Len(InsertedThisPass) <= Len(cur.cursor)
    /\ \A i \in 1 .. Len(InsertedThisPass) : InsertedThisPass[i] = Digits(cur.cursor[i])
    /\ \A i, j \in 1 .. Len(InsertedThisPass) :
          i < j => ToNumber(InsertedThisPass[i]) < ToNumber(InsertedThisPass[j])
    /\ (spc = "idle" /\ sync_outcome = "returned")
          => Len(InsertedThisPass) = Len(cur.cursor)

\* C15 witness: three rows went through two fetches and two sub-batches.
C15_Witness ==
    /\ spc = "idle"
    /\ sync_outcome = "returned"
    /\ Len(cur.cursor) = 3
    /\ cur.fetch_calls = 2
    /\ cur.stmts = 2
    /\ Len(InsertedThisPass) = 3

\* C28: execute_query returns the rows of the result set, each once and in
\* cursor order, after n div b + 1 fetchmany calls for n rows and batch size
\* b: it stops at the first fetch shorter than b, which is an empty one when
\* n is a multiple of b.
C28_ExecuteQueryReturnsResultSet ==
    spc \in {"fetched", "converted", "returning"}
        => /\ rows = cur.cursor
           /\ cur.fetch_calls = (Len(cur.cursor) \div BatchSize) + 1

\* C28 witness: a result set of exactly one batch was returned after two
\* fetches, the second of which found the cursor empty.
C28_Witness ==
    /\ spc = "fetched"
    /\ Len(cur.cursor) = BatchSize
    /\ rows = cur.cursor
    /\ cur.fetch_calls = 2

\* C29: insert_data sends its n records as ceil(n / batch_size) statements,
\* consecutive sub-batches of batch_size records (the last one shorter) in
\* input order, so that what the destination has received is the input, and
\* returns n; a call cut short at sub-batch k shows the sub-batch boundary:
\* the destination has received the first k * batch_size records.
C29_InsertDataSubBatches ==
    LET n == Len(converted_data)
    IN /\ (spc = "returning" /\ cur.insert_calls = 1)
             => /\ cur.stmts = ((n + InsertBatchSize - 1) \div InsertBatchSize)
                /\ InsertedThisPass = converted_data
                /\ result = n
       /\ (spc = "failed" /\ fail_step = "insert")
             => /\ cur.fail_k < ((n + InsertBatchSize - 1) \div InsertBatchSize)
                /\ InsertedThisPass = SubSeq(converted_data, 1, cur.fail_k * InsertBatchSize)

\* C29 witness: insert_data has returned 3 after sending three records in
\* two statements to a destination that held rows before.
C29_Witness ==
    /\ spc = "returning"
    /\ cur.insert_calls = 1
    /\ cur.dest_before > 0
    /\ Len(converted_data) = InsertBatchSize + 1
    /\ cur.stmts = 2
    /\ InsertedThisPass = converted_data
    /\ result = InsertBatchSize + 1

\* ------------------------------------------------------------- syncpl.py

\* result = clickhouse.execute("SELECT MAX(act_aa_id) ..."); last_id =
\* result[0][0] if result[0][0] else 0; except Exception: last_id = 0.  MAX
\* over the String column is '' for an empty table; the statement fails when
\* the table does not exist or the destination cannot be reached.
PlLastId(out, d) ==
    IF out = "error" \/ Len(d) = 0 THEN PyInt0 ELSE PyStr(StrMax(Range(d)))

\* A fetch that returns every remaining row of the cursor.
PlFetchAll(cursor, pos) == SubSeq(cursor, pos + 1, Len(cursor))

\* cursor.fetchmany(batch_size): the next rows of the cursor, batch_size at most.
PlFetchMany(cursor, pos) ==
    SubSeq(cursor, pos + 1,
           IF pos + PlBatchSize < Len(cursor) THEN pos + PlBatchSize ELSE Len(cursor))

\* A conversion that hands the chunk's records over last row first.
PlToRecordsReversed(chunk) ==
    [i \in 1 .. Len(chunk) |-> Digits(chunk[Len(chunk) + 1 - i])]

\* The polars step for the identifier column: cast to Utf8.
PlToRecords(chunk) == [i \in 1 .. Len(chunk) |-> Digits(chunk[i])]

\* How sync_oracle_to_clickhouse ends: "return total_records" after the
\* loop, "return 0" in the handler of every exception.
PlReport(failed, total) ==
    [outcome |-> "returned", result |-> IF failed THEN 0 ELSE total]

\* syncpl.py is started: main is about to call sync_oracle_to_clickhouse.
\* main reads DOCKER_CONTAINER and does not set it.
InitPl ==
    /\ pc = "pl_call"
    /\ retries = 0
    /\ exit_code = 0
    /\ docker_container \in {"unset", "", "1"}
    /\ table_exists \in BOOLEAN
    /\ NoPass
    /\ startup = [attempts |-> 0, connected |-> FALSE, slept |-> 0, test |-> "none"]
    /\ conv = NoConv
    /\ pl = NoPl

\* sync_oracle_to_clickhouse is entered and the clickhouse_driver Client is
\* made (the driver connects on the first statement).
PlCreateClient ==
    /\ pc = "pl_call"
    /\ spc = "idle"
    /\ Len(dest) + NumIds <= MaxDest
    /\ ch_client' = "client"
    /\ spc' = "pl_client"
    /\ fail_step' = "none"
    /\ sync_outcome' = "none"
    /\ prev' = [outcome |-> sync_outcome,
                 max_fetched |-> IF Len(cur.cursor) = 0 THEN 0
                                 ELSE MaxNum(Range(cur.cursor)),
                 max_inserted |-> IF Len(dest) = cur.dest_before THEN 0
                                  ELSE MaxNum({ToNumber(dest[i]) :
                                               i \in cur.dest_before + 1 .. Len(dest)}),
                 wm |-> ToNumber(last_id.s),
                 clean |-> cur.clean]
    /\ cur' = [NoCur EXCEPT !.dest_before = Len(dest), !.steps = <<"dst_connect">>,
                            !.clients_opened = 1]
    /\ last_id' = PyInt0
    /\ rows' = <<>>
    /\ converted_data' = <<>>
    /\ result' = 0
    /\ pl' = NoPl
    /\ UNCHANGED <<conv, mainVars, envVars, dest, oracle_connection, wm, src_dirty>>

\* The last synced identifier is read, 0 when the statement fails.
PlGetLastId ==
    /\ spc = "pl_client"
    /\ \E out \in {"ok", "error"} :
          /\ ~table_exists => out = "error"
          /\ last_id' = PlLastId(out, dest)
          /\ cur' = [cur EXCEPT !.clean = (out = "ok"), !.steps = Append(@, "watermark")]
    /\ spc' = "pl_resolved"
    /\ UNCHANGED <<conv, pl, mainVars, envVars, dest, connVars, rows, converted_data,
                   result, sync_outcome, fail_step, wm, prev, src_dirty>>

\* with oracledb.connect(...) as oracle_conn: cursor = oracle_conn.cursor()
PlOracleConnect ==
    /\ spc = "pl_resolved"
    /\ \E out \in {"ok", "connect_error"} :
          /\ oracle_connection' = IF out = "ok" THEN "open" ELSE oracle_connection
          /\ spc' = IF out = "ok" THEN "pl_connected" ELSE "pl_failed"
          /\ fail_step' = IF out = "ok" THEN fail_step ELSE "oracle_connect"
    /\ cur' = [cur EXCEPT !.steps = Append(@, "src_connect")]
    /\ UNCHANGED <<conv, pl, mainVars, envVars, dest, ch_client, passVars,
                   sync_outcome, wm, prev, src_dirty>>

\* cursor.execute(query, [last_id]); batch_size = 5000; total_records = 0
PlExecute ==
    /\ spc = "pl_connected"
    /\ \E out \in {"ok", "query_error"} :
          IF out = "ok"
          THEN /\ pl' = [cursor |-> SourceQuery(source, last_id), pos |-> 0,
                         total_records |-> 0]
               /\ spc' = "pl_loop"
               /\ fail_step' = fail_step
               /\ cur' = [cur EXCEPT !.src_same = ~src_dirty,
                                     !.steps = Append(@, "query"),
                                     !.cursor = SourceQuery(source, last_id)]
          ELSE /\ pl' = pl
               /\ spc' = "pl_failed"
               /\ fail_step' = "query"
               /\ cur' = [cur EXCEPT !.src_same = ~src_dirty,
                                     !.steps = Append(@, "query")]
    /\ src_dirty' = FALSE
    /\ UNCHANGED <<conv, mainVars, envVars, dest, connVars, passVars, sync_outcome,
                   wm, prev>>

\* rows = cursor.fetchmany(batch_size); if not rows: break; after the loop,
\* return total_records.
PlFetch ==
    /\ spc = "pl_loop"
    /\ LET got == PlFetchMany(pl.cursor, pl.pos)
       IN /\ rows' = got
          /\ pl' = [pl EXCEPT !.pos = @ + Len(got)]
          /\ spc' = IF Len(got) = 0 THEN "pl_returning" ELSE "pl_chunk"
          /\ result' = IF Len(got) = 0 THEN pl.total_records ELSE result
    /\ cur' = [cur EXCEPT !.fetch_calls = @ + 1]
    /\ UNCHANGED <<conv, mainVars, envVars, dest, connVars, last_id, converted_data,
                   sync_outcome, fail_step, wm, prev, src_dirty>>

\* The chunk is made a polars DataFrame, its columns are cast and the frame
\* is turned into records; an exception of polars ends the pass.
PlConvert ==
    /\ spc = "pl_chunk"
    /\ \E out \in {"ok", "error"} :
          IF out = "ok"
          THEN /\ converted_data' = PlToRecords(rows)
               /\ spc' = "pl_records"
               /\ fail_step' = fail_step
          ELSE /\ converted_data' = converted_data
               /\ spc' = "pl_failed"
               /\ fail_step' = "convert"
    /\ cur' = [cur EXCEPT !.convert_calls = @ + 1]
    /\ UNCHANGED <<conv, pl, mainVars, envVars, dest, connVars, last_id, rows, result,
                   sync_outcome, wm, prev, src_dirty>>

\* The chunk's records are inserted with one INSERT statement; when it
\* raises, the handler logs records[0] and re-raises.
PlInsert ==
    /\ spc = "pl_records"
    /\ \E out \in {"ok", "error"} :
          /\ ~table_exists => out = "error"
          /\ IF out = "ok"
             THEN /\ dest' = dest \o converted_data
                  /\ pl' = [pl EXCEPT !.total_records = @ + Len(converted_data)]
                  /\ spc' = "pl_loop"
                  /\ fail_step' = fail_step
                  /\ cur' = [cur EXCEPT !.insert_calls = @ + 1, !.stmts = @ + 1,
                                        !.cycles = Append(@, Len(converted_data))]
             ELSE /\ dest' = dest
                  /\ pl' = pl
                  /\ spc' = "pl_failed"
                  /\ fail_step' = "insert"
                  /\ cur' = [cur EXCEPT !.insert_calls = @ + 1, !.stmts = @ + 1,
                                        !.fail_k = cur.insert_calls,
                                        !.diag = converted_data[1]]
    /\ UNCHANGED <<conv, mainVars, envVars, connVars, last_id, rows, converted_data,
                   result, sync_outcome, wm, prev, src_dirty>>

\* The with block is left, which closes the source connection, and the
\* function returns: total_records, or 0 from "except Exception".
PlReturn ==
    /\ spc \in {"pl_returning", "pl_failed"}
    /\ oracle_connection' = "None"
    /\ ch_client' = "None"
    /\ LET r == PlReport(spc = "pl_failed", result)
       IN /\ sync_outcome' = r.outcome
          /\ result' = r.result
    /\ spc' = "idle"
    /\ pc' = "pl_after"
    /\ UNCHANGED <<conv, pl, retries, exit_code, docker_container, startup, envVars,
                   dest, last_id, rows, converted_data, fail_step, histVars>>

\* main leaves its loop after the call whatever the environment says.
PlMainAfterBreaks ==
    /\ pc = "pl_after"
    /\ pc' = "pl_exited"
    /\ UNCHANGED <<conv, pl, retries, exit_code, docker_container, startup, envVars,
                   dest, connVars, spc, passVars, sync_outcome, fail_step, histVars>>

\* main after the call: sleep an hour when DOCKER_CONTAINER is set and not
\* empty, else leave the loop.
PlMainAfter ==
    /\ pc = "pl_after"
    /\ IF docker_container \notin {"unset", ""}
       THEN pc' = "pl_sleep"
       ELSE pc' = "pl_exited"
    /\ UNCHANGED <<conv, pl, retries, exit_code, docker_container, startup, envVars,
                   dest, connVars, spc, passVars, sync_outcome, fail_step, histVars>>

\* time.sleep(3600), then the next call.
PlMainSleep ==
    /\ pc = "pl_sleep"
    /\ pc' = "pl_call"
    /\ UNCHANGED <<conv, pl, retries, exit_code, docker_container, startup, envVars,
                   dest, connVars, spc, passVars, sync_outcome, fail_step, histVars>>

NextPl ==
    \/ AddSourceRow
    \/ ProvisionTable
    \/ PlCreateClient
    \/ PlGetLastId
    \/ PlOracleConnect
    \/ PlExecute
    \/ PlFetch
    \/ PlConvert
    \/ PlInsert
    \/ PlReturn
    \/ PlMainAfter
    \/ PlMainSleep

SpecPl == InitPl /\ [][NextPl]_vars

\* ------------------------------------------------ sync.py, started again

\* The process has ended and is started again by whatever runs it: main
\* begins anew with no connector; the two stores are as they were.
Restart ==
    /\ pc = "exited"
    /\ pc' = "wait_ch"
    /\ retries' = StartupRetries
    /\ exit_code' = 0
    /\ startup' = [attempts |-> 0, connected |-> FALSE, slept |-> 0, test |-> "none"]
    /\ ch_client' = "None"
    /\ UNCHANGED <<conv, pl, docker_container, envVars, dest, oracle_connection, spc,
                   passVars, sync_outcome, fail_step, histVars>>

NextRestart == Next \/ Restart

SpecRestart == Init /\ [][NextRestart]_vars

\* ------------------------------------------------------- the two programs

\* Either program is started.
InitAll == Init \/ InitPl

\* A step of whichever program was started.
NextAll == Next \/ NextPl

SpecAll == InitAll /\ [][NextAll]_vars

\* --------------------------------------------- both programs, kept running

\* A step of sync.py itself.
SyncStep ==
    \/ MainConnectAttempt
    \/ MainAfterWait
    \/ MainAfterSync
    \/ MainSleep
    \/ SyncOracleConnect
    \/ SyncClickHouseConnect
    \/ SyncGetLastSyncId
    \/ SyncExecuteQuery
    \/ SyncConvert
    \/ SyncInsert
    \/ SyncFinally

\* A step of syncpl.py itself.
PlStep ==
    \/ PlCreateClient
    \/ PlGetLastId
    \/ PlOracleConnect
    \/ PlExecute
    \/ PlFetch
    \/ PlConvert
    \/ PlInsert
    \/ PlReturn
    \/ PlMainAfter
    \/ PlMainSleep

\* The program is single-threaded and every call it makes returns or raises:
\* while it has a next statement it executes it.
FairSpecAll == SpecAll /\ WF_vars(SyncStep \/ PlStep)

\* ------------------------------------------------- claims on both programs

\* main's positions in syncpl.py.
PlPcs == {"pl_call", "pl_after", "pl_sleep", "pl_exited"}

\* The program running is syncpl.py.
IsSyncPl == pc \in PlPcs

\* A pass has run and has ended.
PassEnded == spc = "idle" /\ cur.steps # <<>>

\* A pass has run its query and every later step and has ended without a
\* failure.
SuccessfulPassEnded ==
    /\ PassEnded
    /\ sync_outcome = "returned"
    /\ fail_step = "none"

\* The number the destination's greatest act_aa_id (in the String column's
\* order) stands for, 0 for an empty table.
DestWatermark == IF Len(dest) = 0 THEN 0 ELSE ToNumber(StrMax(Range(dest)))

CeilDiv(n, b) == (n + b - 1) \div b

\* The sizes of the chunks of n rows fetched b at a time.
ChunkSizes(n, b) == [k \in 1 .. CeilDiv(n, b) |-> IF k * b <= n THEN b ELSE n - (k - 1) * b]

RECURSIVE SumSeq(_)
SumSeq(q) == IF Len(q) = 0 THEN 0 ELSE q[1] + SumSeq(Tail(q))

\* The batch size of the running program's fetch loop.
FetchBatchSize == IF IsSyncPl THEN PlBatchSize ELSE BatchSize

\* C12: a pass that failed (connect, query, conversion or insert failure)
\* ends by raising to the scheduling loop, and a pass that returns 0 did not
\* fail and had no new source row.
C12_ZeroOnlyWhenNoNewData ==
    PassEnded
        => /\ fail_step # "none" => sync_outcome = "raised"
           /\ (sync_outcome = "returned" /\ result = 0)
                 => (fail_step = "none" /\ Len(cur.cursor) = 0)

\* C19 as stated: a pass over a result set of n rows with batch size b makes
\* ceil(n/b) convert and insert calls, one per fetched chunk, whose inserted
\* row counts are the chunk sizes and sum to n.
C19_BatchFidelity ==
    SuccessfulPassEnded
        => LET n == Len(cur.cursor)
               b == FetchBatchSize
           IN /\ cur.convert_calls = CeilDiv(n, b)
              /\ cur.insert_calls = CeilDiv(n, b)
              /\ cur.cycles = ChunkSizes(n, b)
              /\ SumSeq(cur.cycles) = n

\* C19 amended: syncpl.py makes ceil(n/b) fetch/convert/insert cycles, one
\* per chunk, and one more fetch that finds the cursor empty; sync.py makes
\* n div b + 1 fetches, then (when n > 0) one conversion and one insert call
\* for all n rows, sent as ceil(n/InsertBatchSize) statements.  In both the
\* inserted row counts sum to n, which is the pass's result.
C19_BatchFidelityAmended ==
    SuccessfulPassEnded
        => LET n == Len(cur.cursor)
           IN /\ SumSeq(cur.cycles) = n
              /\ result = n
              /\ Len(dest) = cur.dest_before + n
              /\ IF IsSyncPl
                 THEN /\ cur.fetch_calls = CeilDiv(n, PlBatchSize) + 1
                      /\ cur.convert_calls = CeilDiv(n, PlBatchSize)
                      /\ cur.insert_calls = CeilDiv(n, PlBatchSize)
                      /\ cur.stmts = CeilDiv(n, PlBatchSize)
                      /\ cur.cycles = ChunkSizes(n, PlBatchSize)
                 ELSE /\ cur.fetch_calls = (n \div BatchSize) + 1
                      /\ cur.convert_calls = IF n > 0 THEN 1 ELSE 0
                      /\ cur.insert_calls = IF n > 0 THEN 1 ELSE 0
                      /\ cur.stmts = CeilDiv(n, InsertBatchSize)
                      /\ cur.cycles = IF n > 0 THEN <<n>> ELSE <<>>

\* C19 witness: a syncpl.py pass over three rows has ended after two
\* cycles, of two rows and of one row, and a third, empty fetch.
C19_Witness ==
    /\ IsSyncPl
    /\ SuccessfulPassEnded
    /\ Len(cur.cursor) = 3
    /\ cur.cycles = <<2, 1>>
    /\ cur.fetch_calls = 3
    /\ result = 3

\* What a pass without a failure makes of the result set of its query: the
\* row count it returns and the rows it appends to the destination.
PassOutput(result_set) ==
    [result |-> Len(result_set),
     inserted |-> [i \in 1 .. Len(result_set) |-> Digits(result_set[i])]]

\* C27: a pass that ended without a failure, of syncpl.py (fetch a chunk,
\* convert, insert, repeat) or of sync.py (fetch all, convert all, insert),
\* returns the row count of its result set and has appended the result set's
\* rows in cursor order, so both leave the same destination for the same
\* result set and starting destination; and the watermark the next pass
\* reads from that destination, when its statements succeed, is the same
\* number in both programs.
C27_StreamingEquivalence ==
    /\ SuccessfulPassEnded
          => /\ result = PassOutput(cur.cursor).result
             /\ InsertedThisPass = PassOutput(cur.cursor).inserted
    /\ (spc \in {"resolved", "pl_resolved"} /\ cur.clean)
          => ToNumber(last_id.s) = DestWatermark

\* C27 witness: a syncpl.py pass has appended the rows 8, 9, 10 of its
\* result set in two chunks to a destination that held rows before, and
\* returned 3.
C27_Witness ==
    /\ IsSyncPl
    /\ SuccessfulPassEnded
    /\ cur.cursor = <<8, 9, 10>>
    /\ cur.dest_before > 0
    /\ InsertedThisPass = <<Digits(8), Digits(9), Digits(10)>>
    /\ result = 3

\* The same result set replicated by a sync.py pass.
C27_WitnessMaterializing ==
    /\ ~IsSyncPl
    /\ SuccessfulPassEnded
    /\ cur.cursor = <<8, 9, 10>>
    /\ InsertedThisPass = <<Digits(8), Digits(9), Digits(10)>>
    /\ result = 3

\* C20: in a pass the source connection is opened only after the destination
\* connection was opened and the watermark resolved, and the query runs only
\* after that; a pass that fails to reach the destination has opened no
\* source connection.
C20_DestinationBeforeSource ==
    /\ \A i \in 1 .. Len(cur.steps) :
          /\ cur.steps[i] = "src_connect"
                => \E j, k \in 1 .. i - 1 :
                      j < k /\ cur.steps[j] = "dst_connect" /\ cur.steps[k] = "watermark"
          /\ cur.steps[i] = "query"
                => \E j \in 1 .. i - 1 : cur.steps[j] = "src_connect"
    /\ fail_step = "ch_connect" => "src_connect" \notin Range(cur.steps)

\* ---------------------------------------------- claims on one pass of sync.py

\* C23: in a pass the source query is executed at most once, insert_data is
\* called at most once and sends at most one statement per sub-batch; a pass
\* whose query failed has sent no statement, has left the destination as it
\* was and ends by raising.
C23_NothingRetriedInPass ==
    /\ Cardinality({i \in 1 .. Len(cur.steps) : cur.steps[i] = "query"}) <= 1
    /\ cur.insert_calls <= 1
    /\ cur.stmts <= NumSubBatches(converted_data)
    /\ fail_step = "query"
          => /\ spc \in {"failed", "idle"}
             /\ cur.fetch_calls = 0
             /\ cur.convert_calls = 0
             /\ cur.stmts = 0
             /\ Len(dest) = cur.dest_before
             /\ spc = "idle" => sync_outcome = "raised"

\* C23 witness: a pass whose query failed has ended; the destination holds
\* the rows of an earlier pass and no more.
C23_Witness ==
    /\ fail_step = "query"
    /\ spc = "idle"
    /\ sync_outcome = "raised"
    /\ cur.steps = <<"src_connect", "dst_connect", "watermark", "query">>
    /\ Len(dest) = 2
    /\ cur.dest_before = 2

\* C30: a pass in which OracleConnector.connect fails has made that one
\* connect attempt and no other step: no query, no fetch, no insert, the
\* destination as it was; it ends by raising.  A pass that goes on past its
\* first step has a source connection.
C30_SourceConnectFailurePropagated ==
    /\ fail_step = "oracle_connect"
          => /\ cur.steps = <<"src_connect">>
             /\ spc \in {"failed", "idle"}
             /\ cur.fetch_calls = 0
             /\ cur.insert_calls = 0
             /\ cur.stmts = 0
             /\ Len(dest) = cur.dest_before
             /\ spc = "idle" => sync_outcome = "raised"
    /\ (spc # "idle" /\ oracle_connection = "None") => fail_step = "oracle_connect"

\* C30 witness: a periodic pass whose source connect failed has raised to
\* main; the destination holds the rows of earlier passes and no more.
C30_Witness ==
    /\ fail_step = "oracle_connect"
    /\ pc = "after_periodic"
    /\ sync_outcome = "raised"
    /\ oracle_connection = "None"
    /\ cur.steps = <<"src_connect">>
    /\ Len(dest) > 0

\* C26: no exit path of a pass closes the destination client, and a pass
\* that finds a client open (as every pass of sync.py does, after the startup
\* poll) constructs no new one.
C26_DestinationClientReused ==
    /\ (spc # "idle" \/ cur.steps # <<>>) => ch_client = "client"
    /\ cur.clients_opened = 0

\* ------------------------------------------------- claims on the scheduler

\* main is not inside a call of the pass function.
MainOutsidePass ==
    pc \in {"wait_ch", "after_wait", "after_initial", "sleep", "after_periodic",
            "exited", "pl_after", "pl_sleep", "pl_exited"}

\* A step that starts a pass.
PassStarts == Len(cur'.steps) = 1 /\ cur'.steps # cur.steps

\* C24: while main sleeps or is otherwise outside the pass call no pass is
\* running, a pass starts only when no pass is running, and every pass that
\* has started ends.
C24_PassesDoNotOverlap ==
    /\ [](MainOutsidePass => spc = "idle")
    /\ [][PassStarts => spc = "idle"]_vars
    /\ (spc # "idle") ~> (spc = "idle")

\* C24 witness: a second pass is running after the first pass ended and main
\* slept.
C24_Witness ==
    /\ pc = "periodic_sync"
    /\ spc = "fetched"
    /\ prev.outcome = "returned"
    /\ Len(rows) > 0

\* The process runs in container mode: DOCKER_CONTAINER is set and not empty.
ContainerMode == docker_container \notin {"unset", ""}

\* C25 as stated: main sleeps only after a pass has run, and the scheduler
\* stops only after a failure (of the startup poll or of a pass).
C25_SchedulerNeverStops ==
    /\ pc \in {"sleep", "pl_sleep"} => cur.steps # <<>>
    /\ pc = "exited" => (~startup.connected \/ sync_outcome = "raised")
    /\ pc = "pl_exited" => fail_step # "none"

\* C25 amended: main sleeps only after a pass has run; in container mode the
\* scheduler stops only after a failure, and after every pass that returned
\* and the sleep that follows it main calls the next pass; outside container
\* mode main never sleeps and the process ends after its one pass.
C25_SchedulerInContainerMode ==
    /\ [](pc \in {"sleep", "pl_sleep"} => cur.steps # <<>> /\ ContainerMode)
    /\ [](pc = "exited" => (~startup.connected \/ sync_outcome = "raised" \/ ~ContainerMode))
    /\ [](pc = "pl_exited" => ~ContainerMode)
    /\ [](~ContainerMode => pc \notin {"periodic_sync", "after_periodic"})
    /\ (pc \in {"after_initial", "after_periodic", "pl_after"} /\ sync_outcome = "returned")
          ~> (IF ContainerMode THEN pc \in {"periodic_sync", "pl_call"}
                               ELSE pc \in {"exited", "pl_exited"})

\* C25 witness: in container mode two passes of syncpl.py have returned and
\* main, having slept, calls the third.
C25_Witness ==
    /\ pc = "pl_call"
    /\ ContainerMode
    /\ spc = "idle"
    /\ sync_outcome = "returned"
    /\ prev.outcome = "returned"
    /\ fail_step = "none"

\* ------------------------------------------ claims on passes after a failure

C22_AtLeastOnce ==
    (SuccessfulPassEnded /\ ~src_dirty)
        => \A r \in source : \E i \in 1 .. Len(dest) : dest[i] = Digits(r)

\* C22 witness: a pass failed after the destination had accepted rows of it,
\* the pass after it has ended without a failure, and the three source rows
\* are in the destination.
C22_Witness ==
    /\ SuccessfulPassEnded
    /\ ~src_dirty
    /\ prev.outcome = "raised"
    /\ prev.max_inserted > 0
    /\ source = {8, 9, 10}
    /\ \A r \in source : \E i \in 1 .. Len(dest) : dest[i] = Digits(r)

\* ------------------------------------------------ claims on the converter

\* The default the text of C16 gives for a type tag of the table.
C16_Default(tag) ==
    CASE tag \in {"Int8", "Int16", "Int32", "Int64", "Int128", "Int256", "UInt8",
                  "UInt16", "UInt32", "UInt64", "UInt128", "UInt256"} -> PyVal("int", "0")
      [] tag \in {"Float32", "Float64", "Decimal"} -> PyVal("float", "0.0")
      [] tag \in {"String", "FixedString", "Enum8", "Enum16"} -> PyVal("str", "")
      [] tag = "UUID" -> PyVal("str", "00000000-0000-0000-0000-000000000000")
      [] tag \in {"Date", "DateTime", "DateTime64"} -> PyNone
      [] tag = "Bool" -> PyVal("bool", "False")

\* C16: for every type tag of the converter's table, a null in a mapped
\* column is converted to that tag's default: 0 for the integer tags, 0.0 for
\* the float and decimal tags, "" for String, FixedString and the Enum tags,
\* the all-zero UUID for UUID, null for the date tags, false for Bool.
C16_NullDefaulting ==
    (conv.pc = "done" /\ conv.exc = "none" /\ conv.tag \in TableTags)
        => \A i \in 1 .. Len(conv.batch) :
              conv.batch[i].a = PyNone => conv.out[i].a = C16_Default(conv.tag)

\* C16 witness: a batch with a null UUID field has been converted.
C16_Witness ==
    /\ conv.pc = "done"
    /\ conv.exc = "none"
    /\ conv.tag = "UUID"
    /\ Len(conv.batch) = 2
    /\ conv.batch[2].a = PyNone
    /\ conv.out[2].a = PyVal("str", "00000000-0000-0000-0000-000000000000")

\* The coercion of a field's value to its column's type tag fails.
CoercionFails(tag, v) ==
    /\ v # PyNone
    /\ tag \in TableTags
    /\ TypeConverter(tag, v).exc # "none"

\* C17: convert_records never raises: it returns a batch of the same length
\* in which a field whose coercion fails holds its type's default and every
\* other field is what its conversion alone gives.
C17_ConversionFailureIsolated ==
    conv.pc = "done"
        => /\ conv.exc = "none"
           /\ Len(conv.out) = Len(conv.batch)
           /\ \A i \in 1 .. Len(conv.batch) :
                 /\ DOMAIN conv.out[i] = DOMAIN conv.batch[i]
                 /\ \A c \in DOMAIN conv.batch[i] :
                       LET alone == ConvertField(SchemaMapping(conv.tag), c, conv.batch[i][c])
                       IN  IF /\ c \in DOMAIN SchemaMapping(conv.tag)
                              /\ CoercionFails(SchemaMapping(conv.tag)[c], conv.batch[i][c])
                           THEN conv.out[i][c] = C16_Default(SchemaMapping(conv.tag)[c])
                           ELSE conv.out[i][c] = alone.val

\* C18: a column that is not a key of the schema mapping has the same value
\* in convert_record's output as in its input, null included.
C18_UnmappedUnchanged ==
    (conv.pc = "done" /\ conv.exc = "none")
        => \A i \in 1 .. Len(conv.batch) :
              /\ DOMAIN conv.out[i] = DOMAIN conv.batch[i]
              /\ \A c \in DOMAIN conv.batch[i] \ DOMAIN SchemaMapping(conv.tag) :
                    conv.out[i][c] = conv.batch[i][c]

\* C18 witness: a batch with a null and a non-null unmapped field has been
\* converted, its mapped fields changed and its unmapped fields as they were.
C18_Witness ==
    /\ conv.pc = "done"
    /\ conv.exc = "none"
    /\ conv.tag = "Float64"
    /\ Len(conv.batch) = 2
    /\ conv.batch[1] = [a |-> PyVal("str", "12"), b |-> PyVal("int", "12"), c |-> PyNone]
    /\ conv.batch[2] = [a |-> PyVal("str", "abc"), c |-> PyVal("str", "abc")]
    /\ conv.out[1] = [a |-> PyVal("float", "12.0"), b |-> PyVal("int", "12"), c |-> PyNone]
    /\ conv.out[2] = [a |-> PyVal("float", "0.0"), c |-> PyVal("str", "abc")]

\* C39: a call of convert_records that has returned gives as many records
\* as it was given, the i-th being the conversion of the i-th input record
\* with exactly that record's columns (a mapped column the record lacks is
\* not added); an empty batch gives an empty list; and the batch is still
\* made of the records the caller put in.
C39_ShapePreserved ==
    (conv.pc = "done" /\ conv.exc = "none")
        => /\ Len(conv.out) = Len(conv.batch)
           /\ Len(conv.batch) = 0 => conv.out = <<>>
           /\ \A i \in 1 .. Len(conv.batch) :
                 /\ DOMAIN conv.out[i] = DOMAIN conv.batch[i]
                 /\ conv.out[i] = [c \in DOMAIN conv.batch[i] |->
                                     ConvertField(SchemaMapping(conv.tag), c,
                                                  conv.batch[i][c]).val]
                 /\ conv.batch[i] \in Records(conv.tag)

\* C39 witness: a batch whose first record lacks the mapped column "b" and
\* whose second has it was converted, each output record keeping its
\* input's columns.
C39_Witness ==
    /\ conv.pc = "done"
    /\ conv.exc = "none"
    /\ conv.tag = "Int32"
    /\ Len(conv.batch) = 2
    /\ Len(conv.out) = 2
    /\ DOMAIN conv.batch[1] = {"a", "c"}
    /\ DOMAIN conv.out[1] = {"a", "c"}
    /\ DOMAIN conv.batch[2] = {"a", "b", "c"}
    /\ DOMAIN conv.out[2] = {"a", "b", "c"}
    /\ conv.out[1] # conv.batch[1]

\* An empty batch was converted to an empty list.
C39_WitnessEmpty ==
    /\ conv.pc = "done"
    /\ conv.exc = "none"
    /\ conv.batch = <<>>
    /\ conv.out = <<>>

\* ------------------------------------------------ claims on the connectors

\* C31: a call of ClickHouseConnector.connect whose "SELECT 1" failed has
\* returned the client all the same: the startup poll counts it as connected
\* and stops polling with retries left, and the connector holds a client
\* whenever the poll has connected.
C31_ConnectSurvivesFailedLivenessTest ==
    /\ startup.test = "failed"
          => /\ startup.connected
             /\ ch_client = "client"
             /\ pc = "after_wait"
             /\ retries > 0
    /\ startup.connected => ch_client = "client"

\* C31 witness: the first attempt of the startup poll has returned a client
\* although the destination answered no query.
C31_Witness ==
    /\ pc = "after_wait"
    /\ startup.attempts = 1
    /\ startup.connected
    /\ startup.test = "failed"
    /\ ch_client = "client"
    /\ retries = StartupRetries

\* The values OracleConnector.connection takes.
ConnectionStates == {"None", "open"}

\* C32: OracleConnector.close leaves a closed or never connected connector
\* as it is, close after close leaves what one close leaves, and a pass whose
\* connect never assigned a connection, closed in "finally" all the same,
\* ends with the connector closed.
C32_CloseIdempotent ==
    /\ OracleClose("None") = "None"
    /\ \A c \in ConnectionStates : OracleClose(OracleClose(c)) = OracleClose(c)
    /\ OracleClose(OracleClose(oracle_connection)) = OracleClose(oracle_connection)
    /\ (spc = "idle" /\ fail_step = "oracle_connect") => oracle_connection = "None"

\* C32 witness: the initial pass ended after its source connect had failed,
\* so "finally" closed a connector that was closed or never connected.
C32_Witness ==
    /\ pc = "after_initial"
    /\ spc = "idle"
    /\ fail_step = "oracle_connect"
    /\ sync_outcome = "raised"
    /\ oracle_connection = "None"
    /\ OracleClose(oracle_connection) = oracle_connection

\* ------------------------------------------- claims on watermark resolution

\* A probe of the last get_last_sync_id call was executed and failed.
ProbeFailed(q) == q \in Range(wm.probes) /\ ProbeFails(q, wm.faults, wm.tbl)

\* A probe of the last get_last_sync_id call was executed and answered.
ProbeAnswered(q) == q \in Range(wm.probes) /\ ~ProbeFails(q, wm.faults, wm.tbl)

\* C33: when the MAX probe has failed and the count probe has not answered
\* 0, the ORDER BY probe is executed, so that a call that returns after a
\* failed MAX probe and a failed count probe has executed all three.
C33_ProbesTriedInSequence ==
    (wm.kind = "return" /\ ProbeFailed("max")
        /\ ~(ProbeAnswered("count") /\ wm.rows = 0))
        => "alt" \in Range(wm.probes)

\* A row with this identifier is in the destination.
InDest(r) == \E i \in 1 .. Len(dest) : dest[i] = Digits(r)

\* C34: when a pass has resolved its watermark, after whatever passes
\* returned, raised or left part of their rows behind, every source row
\* whose identifier is at most the watermark is in the destination.
C34_NoRowSkipped ==
    spc = "resolved"
        => \A r \in source : r <= ToNumber(last_id.s) => InDest(r)

\* C34 witness: the pass before raised after its first sub-batch (rows 8
\* and 9 of 8, 9, 10) had been accepted, and this pass has resolved 9.
C34_Witness ==
    /\ spc = "resolved"
    /\ prev.outcome = "raised"
    /\ source = {8, 9, 10}
    /\ dest = <<Digits(8), Digits(9)>>
    /\ ToNumber(last_id.s) = 9
    /\ InDest(8) /\ InDest(9) /\ ~InDest(10)

\* ------------------------------------------- claims on a pass cut short

\* The size of the pieces a pass inserts one statement at a time: the
\* sub-batches of insert_data, the fetched chunks of syncpl.py.
StatementSize == IF IsSyncPl THEN PlBatchSize ELSE InsertBatchSize

\* C35: when the destination has rejected statement number k of a pass
\* (counting from 0), the rows the pass has added are the first k whole
\* sub-batches of its records in source order: no record of the rejected
\* sub-batch or of a later one, and no row taken away again, neither then
\* nor when the pass ends.
C35_PartialInsertIsPrefix ==
    fail_step = "insert"
        => LET kept == cur.fail_k * StatementSize
           IN /\ cur.fail_k >= 0
              /\ kept < Len(cur.cursor)
              /\ Len(dest) = cur.dest_before + kept
              /\ InsertedThisPass = [i \in 1 .. kept |-> Digits(cur.cursor[i])]
              /\ \A j \in kept + 1 .. Len(cur.cursor) :
                    \A i \in cur.dest_before + 1 .. Len(dest) :
                       dest[i] # Digits(cur.cursor[j])

\* C35 witness: a sync.py pass over three rows has raised after its second
\* statement was rejected; the destination has gained the first sub-batch.
C35_Witness ==
    /\ ~IsSyncPl
    /\ fail_step = "insert"
    /\ spc = "idle"
    /\ cur.fail_k = 1
    /\ cur.cursor = <<8, 9, 10>>
    /\ InsertedThisPass = <<Digits(8), Digits(9)>>

\* The same in syncpl.py: the second chunk's statement was rejected.
C35_WitnessStreaming ==
    /\ IsSyncPl
    /\ fail_step = "insert"
    /\ spc = "idle"
    /\ cur.fail_k = 1
    /\ cur.cursor = <<8, 9, 10>>
    /\ InsertedThisPass = <<Digits(8), Digits(9)>>

\* ------------------------------------------ claims on the watermark's value

\* The identifiers stored in the destination, as the source's numbers.
StoredIds == {ToNumber(dest[i]) : i \in 1 .. Len(dest)}

\* C36: the watermark resolved from a destination that holds rows, by
\* probes that all succeeded, is the stored identifier that is greatest in
\* the source's numeric order.
C36_WatermarkAgreesWithSourceOrder ==
    (spc = "resolved" /\ cur.clean /\ Len(dest) > 0)
        => ToNumber(last_id.s) = MaxNum(StoredIds)

\* C37: the watermark a pass has resolved, in sync.py or syncpl.py and
\* whichever probes failed, is a zero watermark or an identifier stored in
\* the destination, and so is never above every stored identifier.
C37_WatermarkIsStoredOrZero ==
    spc \in {"resolved", "pl_resolved"}
        => /\ ToNumber(last_id.s) = 0 \/ last_id.s \in Range(dest)
           /\ Len(dest) > 0 => ToNumber(last_id.s) <= MaxNum(StoredIds)
           /\ Len(dest) = 0 => ToNumber(last_id.s) = 0

\* C37 witness: the MAX probe failed and the ORDER BY probe returned a
\* stored identifier of a destination that holds several.
C37_Witness ==
    /\ spc = "resolved"
    /\ wm.probes = <<"exists", "max", "count", "alt">>
    /\ wm.faults = {"max"}
    /\ Cardinality(StoredIds) >= 2
    /\ last_id.ty = "str"
    /\ last_id.s \in Range(dest)

\* C38: when the existence check of get_last_sync_id raised, the MAX probe
\* is the next statement, and when it is answered its value is returned:
\* the destination's greatest stored identifier, '0' for an empty table.
C38_ExistsFailureIsNotAbsence ==
    (spc = "resolved" /\ ProbeFailed("exists"))
        => /\ Len(wm.probes) >= 2
           /\ wm.probes[2] = "max"
           /\ ProbeAnswered("max")
                 => /\ wm.probes = <<"exists", "max">>
                    /\ last_id = wm.value
                    /\ Len(dest) > 0 => wm.value = PyStr(StrMax(Range(dest)))
                    /\ Len(dest) = 0 => wm.value = PyStr(<<0>>)

\* C38 witness: the existence check raised on a table that holds rows and
\* the watermark is the MAX probe's answer.
C38_Witness ==
    /\ spc = "resolved"
    /\ wm.faults = {"exists"}
    /\ wm.tbl
    /\ wm.probes = <<"exists", "max">>
    /\ Len(dest) > 0
    /\ last_id = PyStr(StrMax(Range(dest)))

====
